---- MODULE Spec2Model ----
(***************************************************************************)
(* Model of CloudLLMService (cloud_llm_service.py): one service instance   *)
(* shared by asyncio tasks.  Every action is one run of a coroutine from   *)
(* one suspension point (an await on the network) to the next, so the      *)
(* interleavings of the model are the interleavings of the event loop.     *)
(***************************************************************************)
EXTENDS Integers, Sequences, FiniteSets, TLC

\* Bounds of the model.
MaxCtx == 2        \* lost contexts are counted up to MaxCtx - 1
MaxLines == 2      \* lines of one streamed response
MaxInput == 3      \* lines of one streamed response read by a single caller

Tasks == {"t1", "t2"}

\* self._client: None, or an httpx.AsyncClient that is open or, once
\* aclose() was called on it, closed.
ClientStates == {"None", "open", "closed"}

\* Values of config.api_key: Python None, the empty string, a key.
ApiKeys == {"None", "", "gsk"}

\* Outcome of a request: an HTTP status, or 0 when the transport failed.
Statuses == {200, 201, 401}
TransportFailed == 0

ChatBodies == {"full", "nousage", "nochoices", "notjson"}
ModelBodies == {"list", "nodata", "noid", "notjson"}

NoResp == [status |-> -1, body |-> "none"]
FailedResp == [status |-> TransportFailed, body |-> "none"]
ChatResponses == {FailedResp} \cup [status : Statuses, body : ChatBodies]
ModelResponses == {FailedResp} \cup [status : Statuses, body : ModelBodies]

\* Lines of a text/event-stream response: the first six characters and the
\* rest, so that startswith("data: ") and line[6:] are computed, not assumed.
DataPrefix == "data: "
Lines ==
  { [prefix |-> DataPrefix, payload |-> "{delta:{content:Hi}}"],
    [prefix |-> DataPrefix, payload |-> "[DONE]"] }

\* Further lines: a line that does not parse, a chunk without text, a line
\* that is no data line, a second text, an empty text, JSON without
\* "choices"
MoreLines ==
  { [prefix |-> DataPrefix, payload |-> "not-json"],
    [prefix |-> DataPrefix, payload |-> "{delta:{}}"],
    [prefix |-> "", payload |-> ""],
    [prefix |-> DataPrefix, payload |-> "{delta:{content:!}}"],
    [prefix |-> DataPrefix, payload |-> "{delta:{content:}}"],
    [prefix |-> DataPrefix, payload |-> "{}"] }
WideLines == Lines \cup MoreLines

\* The sequences over S of length up to n
RECURSIVE SeqsOver(_, _)
SeqsOver(S, n) ==
  IF n = 0 THEN {<<>>}
  ELSE LET shorter == SeqsOver(S, n - 1)
       IN shorter \cup {Append(s, l) : s \in {x \in shorter : Len(x) = n - 1}, l \in S}

SeqsUpTo(n) == SeqsOver(Lines, n)
LineSeqs == SeqsUpTo(MaxLines)
WideLineSeqs == SeqsOver(WideLines, MaxInput)

(***************************************************************************)
(* CloudLLMConfig, lines 15-44                                             *)
(***************************************************************************)
\* os.getenv of a variable that is not set
Unset == "<unset>"

Envs ==
  [ CLOUD_LLM_PROVIDER : {Unset, "groq", "openai", "together", "azure"},
    CLOUD_LLM_BASE_URL : {Unset, "", "http://proxy.local/v1"},
    GROQ_API_KEY : {Unset, "", "gsk"},
    OPENAI_API_KEY : {Unset, "", "sk"},
    CLOUD_LLM_MODEL : {Unset, "", "gpt-4o"},
    CLOUD_LLM_MAX_TOKENS : {Unset, "256", "abc"},
    CLOUD_LLM_TEMPERATURE : {Unset, "0.2", ""} ]

NoEnv ==
  [ CLOUD_LLM_PROVIDER |-> Unset, CLOUD_LLM_BASE_URL |-> Unset,
    GROQ_API_KEY |-> Unset, OPENAI_API_KEY |-> Unset,
    CLOUD_LLM_MODEL |-> Unset, CLOUD_LLM_MAX_TOKENS |-> Unset,
    CLOUD_LLM_TEMPERATURE |-> Unset ]

\* os.getenv(name, default) and os.getenv(name), None as "None"
GetEnv(e, name, default) == IF e[name] = Unset THEN default ELSE e[name]
GetEnvOpt(e, name) == GetEnv(e, name, "None")

\* BaseUrlsGet, were every provider given the groq URL
BaseUrlsGetGroq(p) == "https://api.groq.com/openai/v1"

\* lines 30-34 and 39: base_urls.get(provider, base_urls["groq"])
BaseUrlsGet(p) ==
  CASE p = "groq" -> "https://api.groq.com/openai/v1"
    [] p = "openai" -> "https://api.openai.com/v1"
    [] p = "together" -> "https://api.together.xyz/v1"
    [] OTHER -> "https://api.groq.com/openai/v1"

\* line 38: a or b, on values that are None or strings
OrStr(a, b) == IF a \in {"None", ""} THEN b ELSE a

\* line 42: int(s); ok is false where int raises ValueError
ParseInt(s) ==
  CASE s = "4096" -> [ok |-> TRUE, val |-> 4096]
    [] s = "256" -> [ok |-> TRUE, val |-> 256]
    [] OTHER -> [ok |-> FALSE, val |-> 0]

\* line 43: float(s), in tenths; ok is false where float raises ValueError
ParseFloat(s) ==
  CASE s = "0.7" -> [ok |-> TRUE, val |-> 7]
    [] s = "0.2" -> [ok |-> TRUE, val |-> 2]
    [] OTHER -> [ok |-> FALSE, val |-> 0]

\* lines 42-43: from_env raises ValueError
FromEnvRaises(e) ==
  \/ ~ParseInt(GetEnv(e, "CLOUD_LLM_MAX_TOKENS", "4096")).ok
  \/ ~ParseFloat(GetEnv(e, "CLOUD_LLM_TEMPERATURE", "0.7")).ok

\* lines 27-44: from_env, where it does not raise
FromEnv(e) ==
  LET provider == GetEnv(e, "CLOUD_LLM_PROVIDER", "groq")
  IN [ provider |-> provider,
       api_key |-> OrStr(GetEnvOpt(e, "GROQ_API_KEY"),
                         GetEnvOpt(e, "OPENAI_API_KEY")),
       base_url |-> GetEnv(e, "CLOUD_LLM_BASE_URL", BaseUrlsGet(provider)),
       model |-> GetEnv(e, "CLOUD_LLM_MODEL", "llama-3.3-70b-versatile"),
       max_tokens |-> ParseInt(GetEnv(e, "CLOUD_LLM_MAX_TOKENS", "4096")).val,
       temperature |->
         ParseFloat(GetEnv(e, "CLOUD_LLM_TEMPERATURE", "0.7")).val ]

\* lines 18-24: the defaults of the dataclass, api_key apart; the
\* temperature is counted in tenths, 0.7 is 7
DefaultConfig ==
  [ provider |-> "groq", base_url |-> "https://api.groq.com/openai/v1",
    model |-> "llama-3.3-70b-versatile", max_tokens |-> 4096,
    temperature |-> 7 ]

(***************************************************************************)
(* The arguments of chat, generate and stream_chat, and the request body   *)
(* made of them, lines 88-106 and 131-146.  An Optional argument is the    *)
(* empty sequence for None and <<v>> for v; the model is "None" or a name. *)
(***************************************************************************)
Messages ==
  { <<>>,
    <<[role |-> "system", content |-> "be brief"],
      [role |-> "user", content |-> "hi"]>> }

ChatArgs ==
  [ messages : Messages,
    model : {"None", "", "gpt-4o"},
    temperature : {<<>>, <<0>>, <<2>>},
    max_tokens : {<<>>, <<0>>, <<256>>},
    stream : BOOLEAN ]

\* chat(messages) and stream_chat(messages) with nothing else given
PlainArgs ==
  [ messages |-> <<[role |-> "user", content |-> "hi"]>>, model |-> "None",
    temperature |-> <<>>, max_tokens |-> <<>>, stream |-> FALSE ]

\* no chat result: the call is not chat or has not returned one
NoUsage == [prompt_tokens |-> -1, completion_tokens |-> -1]

\* a call that takes no arguments
NoArgs ==
  [ messages |-> <<>>, model |-> "None", temperature |-> <<>>,
    max_tokens |-> <<>>, stream |-> FALSE ]

Prompts == {"", "hi"}

\* keyword arguments given to generate
GenerateKwargs == {NoArgs, [NoArgs EXCEPT !.model = "gpt-4o"]}

\* lines 127-128: generate(prompt, **kwargs) calls chat with one user message
GenerateArgs(prompt, kwargs) ==
  [kwargs EXCEPT !.messages = <<[role |-> "user", content |-> prompt]>>]

NoPayload ==
  [ model |-> "", messages |-> <<>>, temperature |-> -1, max_tokens |-> -1,
    stream |-> FALSE ]

\* lines 103-104: `x or default` on an Optional number: None and 0 are
\* falsy, the default takes their place
OrNum(opt, d) ==
  IF opt = <<>> THEN d ELSE IF opt[1] = 0 THEN d ELSE opt[1]

\* lines 100-106 (chat, and generate through it) and 140-146 (stream_chat)
PayloadOf(op, a, cfg) ==
  IF op = "stream_chat"
  THEN [ model |-> OrStr(a.model, cfg.model),
         messages |-> a.messages,
         temperature |-> cfg.temperature,
         max_tokens |-> cfg.max_tokens,
         stream |-> TRUE ]
  ELSE [ model |-> OrStr(a.model, cfg.model),
         messages |-> a.messages,
         temperature |-> OrNum(a.temperature, cfg.temperature),
         max_tokens |-> OrNum(a.max_tokens, cfg.max_tokens),
         stream |-> a.stream ]

AutoInitOps == {"chat", "generate", "stream_chat", "list_models"}
Exceptions ==
  { "AttributeError", "TransportError", "HTTPStatusError", "JSONDecodeError",
    "KeyError", "RuntimeError" }

VARIABLES
  env,           \* os.environ, the variables from_env reads
  service,       \* the module global _cloud_llm_service: 0 for None
  instances,     \* CloudLLMService objects get_cloud_llm_service has made
  config,        \* self.config, api_key apart
  apiKey,        \* self.config.api_key
  client,        \* self._client: "None", or the state of the context it names
  initialized,   \* self._initialized
  leaked,        \* open contexts of the instance that self._client lost
  task,          \* per task: the coroutine it runs and where it is suspended
  returned,      \* the call that returned in the last step, with its result
  okSinceClose,  \* history: an initialize succeeded and no close() ran since
  closedReady    \* history: close() of a Ready client completed, no call since

vars ==
  << env, service, instances, config, apiKey, client, initialized, leaked,
     task, returned, okSinceClose, closedReady >>

\* What only the construction of the service writes.
fixed == <<env, service, instances, config, apiKey>>

Idle ==
  [ pc |-> "idle", op |-> "none", ret |-> "none", log |-> <<>>,
    probe |-> -1, resp |-> NoResp, flagAtCall |-> FALSE, okAtCall |-> FALSE,
    afterClose |-> FALSE, wasReady |-> FALSE, lines |-> <<>>,
    out |-> <<>>, sopen |-> FALSE, abandoned |-> FALSE, inst |-> 0,
    args |-> NoArgs, payload |-> NoPayload, usage |-> NoUsage,
    input |-> <<>> ]

\* The task record at the call of op.
NewCall(op) ==
  [ Idle EXCEPT !.op = op, !.flagAtCall = initialized,
                !.okAtCall = okSinceClose, !.afterClose = closedReady ]

\* The task record at the call of op with the arguments a.
NewCallWith(op, a) == [NewCall(op) EXCEPT !.args = a]

\* One step of task t leaves its coroutine at r: suspended at an await, or
\* back in its caller (r.pc = "idle"), who then holds r.ret.
Settle(t, r) ==
  /\ task' = [task EXCEPT ![t] = IF r.pc = "idle" THEN Idle ELSE r]
  /\ returned' = IF r.pc = "idle" THEN r ELSE Idle

Returns(r, v) == [r EXCEPT !.pc = "idle", !.ret = v]
Logged(r, evs) == [r EXCEPT !.log = r.log \o evs]


(***************************************************************************)
(* initialize(), lines 58-86                                               *)
(***************************************************************************)
\* HasKey, were the test left out
HasKeyAlways(k) == TRUE

\* HasKey, were the test `self.config.api_key is None`
HasKeyNotNone(k) == k # "None"

\* line 61: `not self.config.api_key` is false only for a non-empty key
HasKey(k) == k \notin {"None", ""}

\* ProbeOk, were the test response.is_success
ProbeOkAnySuccess(s) == s >= 200 /\ s < 300

\* line 76: response.status_code == 200
ProbeOk(s) == s = 200

\* NeedsInit, were initialize() awaited on every call
NeedsInitAlways(flag) == TRUE

\* NeedsInit, were the flag read the wrong way round
NeedsInitInverted(flag) == flag

\* lines 97, 137, 164: `if not self._initialized: await self.initialize()`
NeedsInit(flag) == ~flag

\* The contexts the instance has opened and not released.  The code keeps
\* no such count; leaked is exact below MaxCtx - 1, and MaxCtx - 1 stands
\* for that many or more.
Unreleased == leaked + (IF client = "open" THEN 1 ELSE 0)

\* line 65: self._client = httpx.AsyncClient(...): the context it named
\* before is dropped as it is, open or closed; line 183 drops it likewise
Replaced ==
  IF client = "open" /\ leaked < MaxCtx - 1 THEN leaked + 1 ELSE leaked

\* lines 61-63: no key, initialize returns False at once
IniNoKey(r) == Logged(r, <<"init", "init_fail">>)

\* lines 65-75: the context is created, the probe is sent, the task waits
IniOpen(r) ==
  [Logged(r, <<"init", "open", "probe">>) EXCEPT !.pc = "probe"]

(***************************************************************************)
(* What an operation does after its initialization step, up to the await   *)
(* of its own request; cl is self._client at that moment.                  *)
(***************************************************************************)
\* lines 100-109 (chat), 140-148 (stream_chat), 167-168 and 175-177
\* (list_models): the request goes out on self._client.  On None the
\* attribute access raises AttributeError, on a closed client httpx raises
\* RuntimeError; only chat and list_models catch, and chat raises again.
SendRequest(r, cl) ==
  LET refused == IF cl = "None" THEN "AttributeError" ELSE "RuntimeError"
      p == [r EXCEPT !.payload = PayloadOf(r.op, r.args, config)]
  IN CASE r.op \in {"chat", "generate"} ->
            IF cl # "open" THEN Returns(p, refused)
            ELSE [Logged(p, <<"post">>) EXCEPT !.pc = "post"]
       [] r.op = "stream_chat" ->
            IF cl # "open" THEN Returns(p, refused)
            ELSE [Logged(p, <<"stream">>) EXCEPT !.pc = "sopen"]
       [] r.op = "list_models" ->
            IF cl # "open" THEN Returns(r, "empty")
            ELSE [Logged(r, <<"get">>) EXCEPT !.pc = "get"]

\* ProceedsAfterInit, were a failed initialize() to end the operation
ProceedsOnlyIfOk(ok) == ok

\* lines 98, 138, 165: the value of `await self.initialize()` is dropped,
\* the operation goes on after a failure as after a success
ProceedsAfterInit(ok) == TRUE

\* The first step of chat, generate, stream_chat and list_models, called
\* with the arguments a.
CallAuto(t, op, a) ==
  /\ task[t].pc = "idle"
  /\ LET r == NewCallWith(op, a)
     IN IF ~NeedsInit(initialized)
        THEN /\ Settle(t, SendRequest(r, client))
             /\ UNCHANGED <<client, leaked>>
        ELSE IF ~HasKey(apiKey)
        THEN /\ Settle(t, IF ProceedsAfterInit(FALSE)
                           THEN SendRequest(IniNoKey(r), client)
                           ELSE Returns(IniNoKey(r), "NotInitialized"))
             /\ UNCHANGED <<client, leaked>>
        ELSE /\ client' = "open"
             /\ leaked' = Replaced
             /\ Settle(t, IniOpen(r))
  /\ closedReady' = FALSE
  /\ UNCHANGED <<fixed, initialized, okSinceClose>>

\* initialize() called by the user, lines 58-75
Initialize(t) ==
  /\ task[t].pc = "idle"
  /\ LET r == NewCall("initialize")
     IN IF ~HasKey(apiKey)
        THEN /\ Settle(t, Returns(IniNoKey(r), "False"))
             /\ UNCHANGED <<client, leaked>>
        ELSE /\ client' = "open"
             /\ leaked' = Replaced
             /\ Settle(t, IniOpen(r))
  /\ closedReady' = FALSE
  /\ UNCHANGED <<fixed, initialized, okSinceClose>>

\* lines 75-86: the probe's answer (a status, or an exception of the
\* transport) resumes initialize; its caller goes on in the same step.
InitializeProbe(t) ==
  /\ task[t].pc = "probe"
  /\ \E s \in Statuses \cup {TransportFailed} :
       LET ok == ProbeOk(s)
           r == [Logged(task[t], <<IF ok THEN "init_ok" ELSE "init_fail">>)
                   EXCEPT !.probe = s]
       IN /\ initialized' = IF ok THEN TRUE ELSE initialized
          /\ okSinceClose' = IF ok THEN TRUE ELSE okSinceClose
          /\ Settle(t, IF r.op = "initialize"
                        THEN Returns(r, IF ok THEN "True" ELSE "False")
                        ELSE IF ProceedsAfterInit(ok)
                        THEN SendRequest([r EXCEPT !.probe = -1], client)
                        ELSE Returns(r, "NotInitialized"))
  /\ UNCHANGED <<fixed, client, leaked, closedReady>>

\* chat(**a), generate(prompt, **kw), stream_chat(messages, model) for
\* arguments of the given sets
ChatFrom(t, argset) == \E a \in argset : CallAuto(t, "chat", a)
GenerateFrom(t, prompts, argset) ==
  \E prompt \in prompts, kw \in argset :
    CallAuto(t, "generate", GenerateArgs(prompt, kw))
StreamChatFrom(t, argset) ==
  \E a \in argset :
    CallAuto(t, "stream_chat", [PlainArgs EXCEPT !.messages = a.messages,
                                                 !.model = a.model])

Chat(t) == ChatFrom(t, {PlainArgs})
Generate(t) == GenerateFrom(t, {"hi"}, {PlainArgs})
StreamChat(t) == StreamChatFrom(t, {PlainArgs})
ListModels(t) == CallAuto(t, "list_models", NoArgs)

(***************************************************************************)
(* chat() and generate(), lines 108-129                                    *)
(***************************************************************************)
\* httpx: raise_for_status() passes the 2xx statuses only
IsSuccess(s) == s >= 200 /\ s < 300

\* ChatOutcome without line 110, response.raise_for_status()
ChatOutcomeUnchecked(resp) ==
  IF resp.status = TransportFailed THEN "TransportError"
  ELSE IF resp.body = "notjson" THEN "JSONDecodeError"
  ELSE IF resp.body = "nochoices" THEN "KeyError"
  ELSE "result"

\* lines 109-123: what chat returns or raises for an answer to its request
ChatOutcome(resp) ==
  IF resp.status = TransportFailed THEN "TransportError"
  ELSE IF ~IsSuccess(resp.status) THEN "HTTPStatusError"
  ELSE IF resp.body = "notjson" THEN "JSONDecodeError"
  ELSE IF resp.body = "nochoices" THEN "KeyError"
  ELSE "result"

\* lines 128-129: generate returns result["content"], chat's exceptions
\* pass through it
GenerateOutcome(resp) ==
  IF ChatOutcome(resp) = "result" THEN "content" ELSE ChatOutcome(resp)

\* Bodies besides ChatBodies: usage with one counter only, usage of zeros
MoreChatBodies == {"promptonly", "zerousage"}
WideChatResponses ==
  ChatResponses \cup [status : Statuses, body : MoreChatBodies]

\* line 111: response.json() of a body that parses, as a dict
Json(body) ==
  CASE body = "full" ->
         [ choices |-> "Hello", model |-> "m1",
           usage |-> [prompt_tokens |-> 11, completion_tokens |-> 5] ]
    [] body = "nousage" -> [choices |-> "Hello", model |-> "m1"]
    [] body = "nochoices" ->
         [ model |-> "m1",
           usage |-> [prompt_tokens |-> 11, completion_tokens |-> 5] ]
    [] body = "promptonly" ->
         [ choices |-> "Hello", model |-> "m1",
           usage |-> [prompt_tokens |-> 11] ]
    [] body = "zerousage" ->
         [ choices |-> "Hello", model |-> "m1",
           usage |-> [prompt_tokens |-> 0, completion_tokens |-> 0] ]

\* dict.get(k, default)
DictGet(d, k, default) == IF k \in DOMAIN d THEN d[k] ELSE default

\* UsageOf, were both counters read from prompt_tokens
UsageOfPromptTwice(data) ==
  LET u == DictGet(data, "usage", <<>>)
  IN [ prompt_tokens |-> DictGet(u, "prompt_tokens", 0),
       completion_tokens |-> DictGet(u, "prompt_tokens", 0) ]

\* lines 116-119: the usage of the result
UsageOf(data) ==
  LET u == DictGet(data, "usage", <<>>)
  IN [ prompt_tokens |-> DictGet(u, "prompt_tokens", 0),
       completion_tokens |-> DictGet(u, "completion_tokens", 0) ]

\* lines 109-123 resumed by an answer of the set resps
ChatResponseFrom(t, resps) ==
  /\ task[t].pc = "post"
  /\ \E resp \in resps :
       Settle(t, Returns([task[t] EXCEPT
                            !.resp = resp,
                            !.usage = IF /\ task[t].op = "chat"
                                         /\ ChatOutcome(resp) = "result"
                                      THEN UsageOf(Json(resp.body))
                                      ELSE NoUsage],
                          IF task[t].op = "generate" THEN GenerateOutcome(resp)
                          ELSE ChatOutcome(resp)))
  /\ UNCHANGED <<fixed, client, initialized, leaked, okSinceClose, closedReady>>

ChatResponse(t) == ChatResponseFrom(t, ChatResponses)

(***************************************************************************)
(* list_models(), lines 167-177                                            *)
(***************************************************************************)
\* ListOutcome, were the error of raise_for_status() not caught
ListOutcomeRaising(resp) ==
  IF resp.status = TransportFailed THEN "empty"
  ELSE IF ~IsSuccess(resp.status) THEN "HTTPStatusError"
  ELSE IF resp.body = "list" THEN "models"
  ELSE "empty"

\* every exception ends in `return []`; a body without "data" maps to []
ListOutcome(resp) ==
  IF resp.status = TransportFailed THEN "empty"
  ELSE IF ~IsSuccess(resp.status) THEN "empty"
  ELSE IF resp.body = "list" THEN "models"
  ELSE "empty"

ListModelsResponse(t) ==
  /\ task[t].pc = "get"
  /\ \E resp \in ModelResponses :
       Settle(t, Returns([task[t] EXCEPT !.resp = resp], ListOutcome(resp)))
  /\ UNCHANGED <<fixed, client, initialized, leaked, okSinceClose, closedReady>>

(***************************************************************************)
(* close(), lines 179-184                                                  *)
(***************************************************************************)
\* lines 181-184: aclose() of an open context marks it closed and closes
\* its connections, for which it waits or, with no connection to wait
\* for, does not: then close() runs to its end in the same step, as it
\* does on a context that is closed already (an earlier close() is still
\* waiting); without a context close() returns at once
Close(t) ==
  /\ task[t].pc = "idle"
  /\ CASE client = "open" ->
            \E waits \in BOOLEAN :
              IF waits
              THEN /\ client' = "closed"
                   /\ Settle(t, [NewCall("close") EXCEPT
                                   !.pc = "aclose", !.log = <<"aclose">>,
                                   !.wasReady = initialized])
                   /\ UNCHANGED <<initialized, closedReady>>
              ELSE /\ client' = "None"
                   /\ initialized' = FALSE
                   /\ closedReady' = initialized
                   /\ Settle(t, Returns([NewCall("close") EXCEPT
                                           !.log = <<"aclose">>,
                                           !.wasReady = initialized], "None"))
       [] client = "closed" ->
            /\ client' = "None"
            /\ initialized' = FALSE
            /\ closedReady' = FALSE
            /\ Settle(t, Returns([NewCall("close") EXCEPT
                                    !.log = <<"aclose">>], "None"))
       [] client = "None" ->
            /\ Settle(t, Returns(NewCall("close"), "None"))
            /\ UNCHANGED <<client, initialized, closedReady>>
  /\ okSinceClose' = FALSE
  /\ UNCHANGED <<fixed, leaked>>

\* lines 183-184, after the await: whatever self._client names by now is
\* dropped
CloseDone(t) ==
  /\ task[t].pc = "aclose"
  /\ client' = "None"
  /\ leaked' = Replaced
  /\ initialized' = FALSE
  /\ Settle(t, Returns(task[t], "None"))
  /\ okSinceClose' = FALSE
  /\ closedReady' = task[t].wasReady
  /\ UNCHANGED fixed

(***************************************************************************)
(* stream_chat(), lines 148-160: an async generator.  The caller drives it *)
(* with __anext__ and may give it up with aclose() while it is suspended   *)
(* at its yield.                                                           *)
(***************************************************************************)
\* line 156: json.loads(data) succeeds
JsonValid(payload) ==
  payload \in { "{delta:{content:Hi}}", "{delta:{content:!}}",
                "{delta:{content:}}", "{delta:{}}", "{}" }

\* line 157: chunk["choices"] of a chunk that parsed; KeyError without it
HasChoices(payload) == payload # "{}"

\* line 157: chunk["choices"][0].get("delta", {}).get("content"), "" for None
DeltaContent(payload) ==
  CASE payload = "{delta:{content:Hi}}" -> "Hi"
    [] payload = "{delta:{content:!}}" -> "!"
    [] OTHER -> ""

\* IsDone, were the terminator not looked for
IsDoneNever(line) == FALSE

\* lines 150-153: the line ends the stream
IsDone(line) == line.prefix = DataPrefix /\ line.payload = "[DONE]"

\* lines 150-160: the text the line makes the generator yield, "" for none;
\* the bare except drops the errors of json.loads and of the lookups
YieldOf(line) ==
  IF /\ line.prefix = DataPrefix
     /\ ~IsDone(line)
     /\ JsonValid(line.payload)
     /\ HasChoices(line.payload)
  THEN DeltaContent(line.payload)
  ELSE ""

\* LineStep, were the loop left at a data line that does not parse
LineStepBreakOnMalformed(line) ==
  IF IsDone(line) THEN "break"
  ELSE IF line.prefix = DataPrefix /\ ~JsonValid(line.payload) THEN "break"
  ELSE IF YieldOf(line) # "" THEN "yield"
  ELSE "skip"

\* lines 150-160: what one pass of the loop does with the line it read
LineStep(line) ==
  IF IsDone(line) THEN "break"
  ELSE IF YieldOf(line) # "" THEN "yield"
  ELSE "skip"

\* line 159: the bare `except:` around the yield also catches the
\* GeneratorExit that aclose() throws into the generator
SwallowsGeneratorExit == TRUE

\* The generator has ended: __anext__ reports StopAsyncIteration, aclose()
\* returns None.
Ended(r) ==
  Returns([r EXCEPT !.lines = <<>>],
          IF r.abandoned THEN "None" ELSE "StopAsyncIteration")

\* The response is released (httpx: Response.aclose(), awaited where the
\* body ends and in the exit of `async with`, line 148).
Released(r) == [r EXCEPT !.sopen = FALSE]

\* The generator leaves the loop (line 153, or no line is left): the exit
\* of `async with` releases a response that is still open, and that may
\* suspend the generator or not; then the generator ends.
Leave(r) ==
  IF r.sopen
  THEN { [Released(r) EXCEPT !.pc = "respclose", !.lines = <<>>],
         Ended(Released(r)) }
  ELSE { Ended(r) }

\* The runs of the generator from a point where it wants its next line,
\* to where it is suspended next or has ended.  r.lines are the lines it
\* has not had yet.  A read of the network may give several lines, so a
\* line may be there without a wait (Answered) or the generator waits for
\* it (pc = "chunk").  The last line may come without a newline: httpx
\* gives it after the body has ended and the response is released, so
\* that r.sopen is FALSE with a line left.
RECURSIVE Answered(_)

\* line 149: the generator asks for its next line
Resume(r) ==
  IF r.sopen THEN {[r EXCEPT !.pc = "chunk"]} \cup Answered(r)
  ELSE Answered(r)

\* lines 150-160 for the line l, r.lines being the lines after it.  A
\* line that yields suspends the generator at the yield; in a generator
\* that aclose() is closing, the yield makes aclose() raise RuntimeError
\* and leaves the generator suspended inside `async with`.
Take(r, l) ==
  CASE LineStep(l) = "break" -> Leave(r)
    [] LineStep(l) = "yield" ->
         IF r.abandoned THEN {Returns(r, "RuntimeError")}
         ELSE {[r EXCEPT !.pc = "syield", !.out = Append(r.out, YieldOf(l))]}
    [] OTHER -> Resume(r)

\* The generator's request for a line is answered: with the next line, or
\* (no line left, or one left that has no newline) with the end of the
\* body, where the response is released, which may suspend or not; after
\* the release the line without newline is given
Answered(r) ==
  IF r.sopen
  THEN (IF r.lines # <<>>
        THEN Take([r EXCEPT !.lines = Tail(r.lines)], Head(r.lines))
        ELSE {})
       \cup
       (IF Len(r.lines) <= 1
        THEN {[Released(r) EXCEPT !.pc = "respclose"]}
             \cup Answered(Released(r))
        ELSE {})
  ELSE IF r.lines = <<>> THEN Leave(r)
  ELSE Take([r EXCEPT !.lines = <<>>], Head(r.lines))

\* line 148: the response arrives (its status is not looked at) and the
\* generator runs on, or the transport fails.  The lines are those of a
\* sequence of seqs; with `recorded` the call keeps the whole sequence in
\* its history field `input`.
StreamOpenFrom(t, seqs, recorded) ==
  /\ task[t].pc = "sopen"
  /\ \E ls \in seqs, fails \in BOOLEAN :
       IF fails THEN Settle(t, Returns(task[t], "TransportError"))
       ELSE \E x \in Resume([task[t] EXCEPT
                                !.lines = ls, !.sopen = TRUE,
                                !.input = IF recorded THEN ls ELSE <<>>]) :
              Settle(t, x)
  /\ UNCHANGED <<fixed, client, initialized, leaked, okSinceClose, closedReady>>

StreamOpen(t) == StreamOpenFrom(t, LineSeqs, FALSE)

\* line 149: the read the generator waits for is answered; a failure of
\* the transport leaves through `async with`, to the caller of __anext__
\* or of aclose()
StreamRead(t) ==
  /\ task[t].pc = "chunk"
  /\ \E fails \in BOOLEAN :
       IF fails
       THEN Settle(t, Returns([task[t] EXCEPT !.sopen = FALSE, !.lines = <<>>],
                              "TransportError"))
       ELSE \E x \in Answered(task[t]) : Settle(t, x)
  /\ UNCHANGED <<fixed, client, initialized, leaked, okSinceClose, closedReady>>

\* the release of the response the generator waits for is done
StreamClosed(t) ==
  /\ task[t].pc = "respclose"
  /\ \E x \in Answered(task[t]) : Settle(t, x)
  /\ UNCHANGED <<fixed, client, initialized, leaked, okSinceClose, closedReady>>

\* __anext__ on the suspended generator: it goes round the loop
StreamNext(t) ==
  /\ task[t].pc = "syield"
  /\ \E x \in Resume(task[t]) : Settle(t, x)
  /\ UNCHANGED <<fixed, client, initialized, leaked, okSinceClose, closedReady>>

\* aclose() on the suspended generator: GeneratorExit is raised at the
\* yield.  Swallowed, the loop goes on.
StreamAbandon(t) ==
  /\ task[t].pc = "syield"
  /\ \E x \in (IF SwallowsGeneratorExit
               THEN Resume([task[t] EXCEPT !.abandoned = TRUE])
               ELSE Leave([task[t] EXCEPT !.abandoned = TRUE])) :
       Settle(t, x)
  /\ UNCHANGED <<fixed, client, initialized, leaked, okSinceClose, closedReady>>

(***************************************************************************)
(* The service: __init__ (lines 53-56), then any calls from the tasks.     *)
(***************************************************************************)
\* The service is made with a config of the caller's: CloudLLMService(config).
Init ==
  /\ env = NoEnv
  /\ service = 0
  /\ instances = 0
  /\ config = DefaultConfig
  /\ apiKey \in ApiKeys
  /\ client = "None"
  /\ initialized = FALSE
  /\ leaked = 0
  /\ task = [t \in Tasks |-> Idle]
  /\ returned = Idle
  /\ okSinceClose = FALSE
  /\ closedReady = FALSE

Next ==
  \E t \in Tasks :
    \/ Initialize(t)
    \/ InitializeProbe(t)
    \/ Chat(t)
    \/ Generate(t)
    \/ ChatResponse(t)
    \/ StreamChat(t)
    \/ StreamOpen(t)
    \/ StreamRead(t)
    \/ StreamClosed(t)
    \/ StreamNext(t)
    \/ StreamAbandon(t)
    \/ ListModels(t)
    \/ ListModelsResponse(t)
    \/ Close(t)
    \/ CloseDone(t)

Spec == Init /\ [][Next]_vars

(***************************************************************************)
(* get_cloud_llm_service(), lines 187-196, and the service it makes from   *)
(* the environment.  The function has no await: it is one step.           *)
(***************************************************************************)
\* NoService, were the test never to find the instance
NoServiceAlways(s) == TRUE

\* line 194: _cloud_llm_service is None
NoService(s) == s = 0

\* lines 191-196; CloudLLMService() reads the environment (line 54), and
\* where from_env raises, the ValueError leaves the accessor and the
\* global stays None
GetCloudLLMService(t) ==
  /\ task[t].pc = "idle"
  /\ IF NoService(service) /\ FromEnvRaises(env)
     THEN /\ Settle(t, Returns(NewCall("get_cloud_llm_service"), "ValueError"))
          /\ UNCHANGED <<service, instances, config, apiKey, client,
                         initialized>>
     ELSE /\ IF NoService(service)
             THEN /\ instances' = instances + 1
                  /\ service' = instances + 1
                  /\ config' = [k \in DOMAIN DefaultConfig |-> FromEnv(env)[k]]
                  /\ apiKey' = FromEnv(env).api_key
                  /\ client' = "None"
                  /\ initialized' = FALSE
             ELSE UNCHANGED <<service, instances, config, apiKey, client,
                              initialized>>
          /\ Settle(t, Returns([NewCall("get_cloud_llm_service") EXCEPT
                                  !.inst = service',
                                  !.log = IF NoService(service)
                                          THEN <<"create">> ELSE <<>>],
                               "service"))
  /\ UNCHANGED <<env, leaked, okSinceClose, closedReady>>

\* A process that has made no service yet, in any environment.
InitEnv ==
  /\ env \in Envs
  /\ service = 0
  /\ instances = 0
  /\ config = DefaultConfig
  /\ apiKey = "None"
  /\ client = "None"
  /\ initialized = FALSE
  /\ leaked = 0
  /\ task = [t \in Tasks |-> Idle]
  /\ returned = Idle
  /\ okSinceClose = FALSE
  /\ closedReady = FALSE

NextEnv == \E t \in Tasks : GetCloudLLMService(t)

SpecEnv == InitEnv /\ [][NextEnv]_vars

(***************************************************************************)
(* One caller of chat and generate, with every argument and answer.        *)
(***************************************************************************)
ChatAny(t) == ChatFrom(t, ChatArgs)
GenerateAny(t) == GenerateFrom(t, Prompts, GenerateKwargs)
ChatResponseAny(t) == ChatResponseFrom(t, WideChatResponses)

NextChat ==
  \/ ChatAny("t1")
  \/ GenerateAny("t1")
  \/ InitializeProbe("t1")
  \/ ChatResponseAny("t1")

SpecChat == Init /\ [][NextChat]_vars

(***************************************************************************)
(* One caller of stream_chat, with every sequence of lines.                *)
(***************************************************************************)
StreamArgs == {PlainArgs, [PlainArgs EXCEPT !.model = "gpt-4o"]}
StreamChatAny(t) == StreamChatFrom(t, StreamArgs)
StreamOpenAny(t) == StreamOpenFrom(t, WideLineSeqs, TRUE)

NextStream ==
  \/ StreamChatAny("t1")
  \/ InitializeProbe("t1")
  \/ StreamOpenAny("t1")
  \/ StreamRead("t1")
  \/ StreamClosed("t1")
  \/ StreamNext("t1")
  \/ StreamAbandon("t1")

SpecStream == Init /\ [][NextStream]_vars

(***************************************************************************)
(* Properties                                                              *)
(***************************************************************************)
\* The calls in sight: the one that has just returned and those in flight.
Calls == {returned} \cup {task[t] : t \in Tasks}

Inits(r) == Cardinality({i \in DOMAIN r.log : r.log[i] = "init"})

\* C1: only chat (and generate, which awaits chat) raises to its caller:
\* initialize, stream_chat, list_models and close never return by an
\* exception.
C1_OnlyChatRaises ==
  returned.ret \in Exceptions => returned.op \in {"chat", "generate"}

\* C2: the instance has at most one connection context open and not
\* released, and none once a close() has returned.
C2_OneConnectionContext ==
  /\ Unreleased <= 1
  /\ returned.op = "close" => Unreleased = 0

\* C3: without an API key (None or empty) initialize() returns False, sends
\* no request, opens nothing and does not raise.
C3_NoKeyInitializeFails ==
  apiKey \in {"None", ""} =>
    /\ \A t \in Tasks : task[t].op # "initialize"
    /\ returned.op = "initialize" =>
         /\ returned.ret = "False"
         /\ returned.log = <<"init", "init_fail">>
         /\ client = "None"

C3_Witness ==
  /\ apiKey = ""
  /\ returned.op = "initialize"
  /\ returned.ret = "False"

\* C4: chat() returns a result record exactly for a 2xx answer whose body
\* parses and has the choices; for every other answer, and when no request
\* could be sent, it raises.
C4_ChatFailuresObservable ==
  returned.op = "chat" =>
    /\ returned.ret = "result" <=>
         /\ returned.resp.status \in {200, 201}
         /\ returned.resp.body \in {"full", "nousage"}
    /\ returned.ret # "result" => returned.ret \in Exceptions

C4_Witness ==
  /\ returned.op = "chat"
  /\ returned.resp = [status |-> 401, body |-> "full"]
  /\ returned.ret = "HTTPStatusError"

\* C5: a chat() call made while the flag is false runs initialize() exactly
\* once, and that run has returned before the POST is sent; a chat() call
\* made while the flag is true runs none.
C5_ChatInitOnce ==
  \A r \in Calls :
    r.op = "chat" =>
      /\ r.flagAtCall => Inits(r) = 0
      /\ ~r.flagAtCall => Inits(r) = 1 /\ r.log[1] = "init"
      /\ \A i \in DOMAIN r.log :
           (r.log[i] = "post" /\ ~r.flagAtCall) =>
             \E j \in 1..(i - 1) : r.log[j] \in {"init_ok", "init_fail"}

C5_Witness ==
  \E t \in Tasks :
    /\ task[t].op = "chat"
    /\ task[t].pc = "post"
    /\ ~task[t].flagAtCall
    /\ task[t].log = <<"init", "open", "probe", "init_ok", "post">>

\* C6, as claimed: initialize() returns True exactly when its probe got 200,
\* the flag is true after a True and false after a False.
C6_FlagFalseAfterFailure ==
  returned.op = "initialize" =>
    /\ returned.ret = "True" <=> returned.probe = 200
    /\ returned.ret = "True" => initialized
    /\ returned.ret = "False" => ~initialized

\* C6, amended: initialize() returns True exactly when its probe got 200; a
\* run of initialize that succeeds sets the flag, and one that fails does not
\* write the flag: the flag keeps the value it had just before the run ended,
\* whatever another initialize() or a close() set it to meanwhile.
C6_FlagSetOnlyBySuccess ==
  [][\A t \in Tasks :
       (task[t].pc = "probe" /\ task'[t].pc # "probe") =>
         LET r == IF task'[t].pc = "idle" THEN returned' ELSE task'[t]
             e == r.log[Len(task[t].log) + 1]
         IN /\ e = "init_ok" => initialized'
            /\ e = "init_fail" => initialized' = initialized
            /\ r.op = "initialize" =>
                 /\ r.ret = "True" <=> r.probe = 200
                 /\ r.ret = "True" <=> e = "init_ok"
                 /\ r.ret = "False" <=> e = "init_fail"]_vars

C6_Witness ==
  /\ returned.op = "initialize"
  /\ returned.ret = "False"
  /\ returned.probe = 201
  /\ initialized

\* C7: a chat, generate, stream_chat or list_models call made while the flag
\* is false starts with a run of initialize(), whatever came before; a call
\* made after a run succeeded, with no close() since, runs none.
C7_RetryUntilSuccess ==
  \A r \in Calls :
    r.op \in AutoInitOps =>
      /\ ~r.flagAtCall => Len(r.log) >= 1 /\ r.log[1] = "init"
      /\ r.okAtCall => Inits(r) = 0

C7_Witness ==
  \E t, u \in Tasks :
    /\ task[t].op = "list_models"
    /\ task[t].okAtCall
    /\ task[t].log = <<"get">>
    /\ task[u].op = "chat"
    /\ ~task[u].flagAtCall
    /\ task[u].log = <<"init", "open", "probe", "init_fail", "post">>

\* C8: a close() that has returned leaves no connection context and the
\* flag false, from whatever state it was called in (so that a second
\* close() changes nothing).
C8_CloseLeavesClosed ==
  returned.op = "close" => client = "None" /\ ~initialized

\* C9: a close() of a Ready client leaves it Uninitialized, and the next
\* chat, generate, stream_chat or list_models call opens a new context and
\* probes before anything else.
C9_ReinitAfterClose ==
  /\ (returned.op = "close" /\ returned.wasReady) =>
        client = "None" /\ ~initialized
  /\ \A r \in Calls :
       (r.op \in AutoInitOps /\ r.afterClose) =>
         /\ Len(r.log) >= 3
         /\ SubSeq(r.log, 1, 3) = <<"init", "open", "probe">>

\* C10: after aclose() on a suspended stream_chat generator the streamed
\* response is released and aclose() has returned without an exception
\* (the generator has produced no further fragment).
C10_AbandonReleases ==
  returned.abandoned => ~returned.sopen /\ returned.ret = "None"

C18_FlagImpliesOpenClient == initialized => client = "open"

\* C19: without an API key no call opens a context, sends a request or
\* sets the flag: the client stays None, no coroutine ever waits on the
\* network and no call has a request in its log.
C19_NoKeyNoNetwork ==
  apiKey \in {"None", ""} =>
    /\ client = "None"
    /\ leaked = 0
    /\ ~initialized
    /\ \A t \in Tasks : task[t].pc = "idle"
    /\ \A i \in DOMAIN returned.log :
         returned.log[i] \notin {"open", "probe", "post", "stream", "get"}

C19_Witness ==
  /\ apiKey = "None"
  /\ returned.op = "generate"
  /\ returned.ret = "AttributeError"
  /\ returned.log = <<"init", "init_fail">>

\* C20: when the run of initialize() inside chat, generate, stream_chat or
\* list_models ends, with whatever outcome, and self._client names an open
\* context, the operation sends its own request in the same step; after a
\* failed run that is a request sent with the flag false.
C20_RequestAfterFailedInit ==
  [][\A t \in Tasks :
       ( /\ task[t].pc = "probe"
         /\ task[t].op \in AutoInitOps
         /\ task'[t] # task[t]
         /\ client = "open" ) =>
           /\ task'[t].pc \in {"post", "sopen", "get"}
           /\ task'[t].log[Len(task'[t].log)] \in {"post", "stream", "get"}
           /\ task'[t].log[Len(task[t].log) + 1] \in {"init_ok", "init_fail"}]_vars

C20_Witness ==
  \E t \in Tasks :
    /\ task[t].pc = "sopen"
    /\ task[t].log = <<"init", "open", "probe", "init_fail", "stream">>
    /\ ~initialized
    /\ client = "open"

\* The text a line is to give, by the text of the line.
TextOf(line) ==
  CASE line = [prefix |-> "data: ", payload |-> "{delta:{content:Hi}}"] -> "Hi"
    [] line = [prefix |-> "data: ", payload |-> "{delta:{content:!}}"] -> "!"
    [] OTHER -> ""

\* The texts of the lines before the first `data: [DONE]`, in order.
RECURSIVE TextsBeforeDone(_)
TextsBeforeDone(ls) ==
  IF ls = <<>> THEN <<>>
  ELSE IF Head(ls) = [prefix |-> "data: ", payload |-> "[DONE]"] THEN <<>>
  ELSE (IF TextOf(Head(ls)) = "" THEN <<>> ELSE <<TextOf(Head(ls))>>)
       \o TextsBeforeDone(Tail(ls))

IsPrefixOf(a, b) == Len(a) <= Len(b) /\ a = SubSeq(b, 1, Len(a))

\* A stream_chat whose response arrived and was read to its end.
ReadToEnd(r) ==
  /\ r.op = "stream_chat"
  /\ r.log # <<>>
  /\ r.log[Len(r.log)] = "stream"
  /\ r.ret # "TransportError"
  /\ ~r.abandoned

\* C11: a stream read to its end has yielded exactly the non-empty texts
\* of the well-formed data lines before the first [DONE], in order, and
\* has ended as an exhausted generator; a stream that is not at its end
\* has yielded a prefix of them, and at a yield a non-empty one.
C11_StopsAtDone ==
  /\ ReadToEnd(returned) =>
       /\ returned.ret = "StopAsyncIteration"
       /\ returned.out = TextsBeforeDone(returned.input)
  /\ \A t \in Tasks :
       task[t].pc \in {"chunk", "syield", "respclose"} =>
         /\ task[t].pc = "syield" => task[t].out # <<>>
         /\ IsPrefixOf(task[t].out, TextsBeforeDone(task[t].input))
         /\ (task[t].pc = "respclose" /\ task[t].lines = <<>>) =>
              task[t].out = TextsBeforeDone(task[t].input)

C11_Witness ==
  /\ ReadToEnd(returned)
  /\ returned.input =
       << [prefix |-> "data: ", payload |-> "{delta:{content:Hi}}"],
          [prefix |-> "data: ", payload |-> "[DONE]"],
          [prefix |-> "data: ", payload |-> "{delta:{content:!}}"] >>
  /\ returned.out = <<"Hi">>

\* What the generator yields when it is given ls and read to its end.
RECURSIVE Yields(_)
Yields(ls) ==
  IF ls = <<>> THEN <<>>
  ELSE CASE LineStep(Head(ls)) = "break" -> <<>>
         [] LineStep(Head(ls)) = "yield" ->
              <<YieldOf(Head(ls))>> \o Yields(Tail(ls))
         [] OTHER -> Yields(Tail(ls))

\* A data line whose payload is not the terminator and is not a chunk:
\* it does not parse, or it parses to an object without choices.
Malformed(line) ==
  /\ line.prefix = "data: "
  /\ line.payload \in {"not-json", "{}"}

\* C12: a stream read to its end has yielded what the same lines without
\* the malformed ones yield, and no error of decoding is its result.
C12_MalformedSkipped ==
  ReadToEnd(returned) =>
    /\ returned.out = Yields(SelectSeq(returned.input, LAMBDA l : ~Malformed(l)))
    /\ returned.ret \notin {"JSONDecodeError", "KeyError"}

C12_Witness ==
  /\ ReadToEnd(returned)
  /\ returned.input =
       << [prefix |-> "data: ", payload |-> "{delta:{content:Hi}}"],
          [prefix |-> "data: ", payload |-> "not-json"],
          [prefix |-> "data: ", payload |-> "{delta:{content:!}}"] >>
  /\ returned.out = <<"Hi", "!">>

\* C14: the body of a chat() request in flight has the model, temperature
\* and max_tokens the caller gave, whatever their value, and the configured
\* ones only for what the caller did not give; messages and stream are the
\* caller's.
C14_OverridesReachPayload ==
  \A t \in Tasks :
    (task[t].pc = "post" /\ task[t].op = "chat") =>
      LET a == task[t].args
          p == task[t].payload
      IN /\ p.model = IF a.model = "None" THEN config.model ELSE a.model
         /\ p.temperature = IF a.temperature = <<>> THEN config.temperature
                             ELSE a.temperature[1]
         /\ p.max_tokens = IF a.max_tokens = <<>> THEN config.max_tokens
                            ELSE a.max_tokens[1]
         /\ p.messages = a.messages
         /\ p.stream = a.stream

\* C16: the usage of a chat result has the counters of the response's
\* usage field, and zeros when the response has no usage field.
C16_UsageCounters ==
  (returned.op = "chat" /\ returned.ret = "result") =>
    LET d == Json(returned.resp.body)
    IN IF "usage" \in DOMAIN d
       THEN \A k \in DOMAIN d.usage : returned.usage[k] = d.usage[k]
       ELSE returned.usage = [prompt_tokens |-> 0, completion_tokens |-> 0]

C16_Witness ==
  /\ returned.op = "chat"
  /\ returned.ret = "result"
  /\ returned.resp.body = "full"
  /\ returned.usage = [prompt_tokens |-> 11, completion_tokens |-> 5]

\* C15, as claimed: get_cloud_llm_service() makes a CloudLLMService on the
\* first call only: at most one is ever made and every call returns that
\* one.
C15_OneInstance ==
  /\ instances <= 1
  /\ returned.op = "get_cloud_llm_service" =>
       /\ instances = 1
       /\ service = 1
       /\ returned.inst = 1

\* C15, amended: at most one CloudLLMService is ever made; every call of
\* get_cloud_llm_service() that returns, returns that one; a call raises
\* ValueError, and makes nothing, exactly when no service is made yet and
\* CLOUD_LLM_MAX_TOKENS is set to no integer or CLOUD_LLM_TEMPERATURE to
\* no float.
C15_OneInstanceOrValueError ==
  /\ instances <= 1
  /\ returned.op = "get_cloud_llm_service" =>
       LET bad == \/ env.CLOUD_LLM_MAX_TOKENS \notin {"<unset>", "256"}
                  \/ env.CLOUD_LLM_TEMPERATURE \notin {"<unset>", "0.2"}
       IN /\ returned.ret \in {"service", "ValueError"}
          /\ returned.ret = "ValueError" <=> bad
          /\ returned.ret = "service" =>
               instances = 1 /\ service = 1 /\ returned.inst = 1
          /\ returned.ret = "ValueError" => instances = 0 /\ service = 0

C15_Witness ==
  /\ returned.op = "get_cloud_llm_service"
  /\ returned.ret = "service"
  /\ returned.log = <<>>
  /\ returned.inst = 1

\* C17: the config made from the environment has, with CLOUD_LLM_BASE_URL
\* not set, the default base URL of the provider selected (groq when
\* CLOUD_LLM_PROVIDER is not set), for groq, openai and together; with
\* CLOUD_LLM_BASE_URL set it has that value.
C17_BaseUrlOfProvider ==
  instances >= 1 =>
    LET p == IF env.CLOUD_LLM_PROVIDER = Unset THEN "groq"
             ELSE env.CLOUD_LLM_PROVIDER
    IN /\ config.provider = p
       /\ env.CLOUD_LLM_BASE_URL # Unset =>
            config.base_url = env.CLOUD_LLM_BASE_URL
       /\ env.CLOUD_LLM_BASE_URL = Unset =>
            /\ p = "groq" => config.base_url = "https://api.groq.com/openai/v1"
            /\ p = "openai" => config.base_url = "https://api.openai.com/v1"
            /\ p = "together" =>
                 config.base_url = "https://api.together.xyz/v1"

C17_Witness ==
  /\ instances = 1
  /\ env.CLOUD_LLM_PROVIDER = "together"
  /\ env.CLOUD_LLM_BASE_URL = Unset
  /\ config.base_url = "https://api.together.xyz/v1"

====
